---------------------------- MODULE Spec2Model ----------------------------
(***************************************************************************)
(* Model of the two servers of src/server.js.                              *)
(*                                                                         *)
(*  - the signaling relay (src/server.js lines 307-616): a registry of one *)
(*    broadcaster, one dashboard and a Map of listeners, and the relay of  *)
(*    negotiation messages between them.  Specification SpecSig.           *)
(*  - the server-mediated audio server (src/server.js lines 1-305): a Set  *)
(*    of listener sockets, the ffmpeg capture subprocess and the fan-out   *)
(*    of its output.  Specification SpecCap.                               *)
(*                                                                         *)
(* Every event handler of the source is one action: the runtime is         *)
(* single-threaded, so a handler runs to completion before the next one.   *)
(***************************************************************************)
EXTENDS Integers, Sequences, FiniteSets, TLC

(* ------------------------------ bounds -------------------------------- *)

\* Number of WebSocket connections the signaling server sees in a run.
NConn == 2

\* Cap on clientIdCounter (the source's counter is unbounded).
MaxId == 2

\* Number of listener sockets the audio server holds at once.
MaxSock == 2

\* Number of ffmpeg processes that exist at once (running or not yet reaped).
MaxProcs == 2

\* Cap on the restart timers pending at once.
MaxTimers == 1

Null == 0

Conns == 1..NConn
Ids == 1..MaxId
Socks == 1..MaxSock
Procs == 1..MaxProcs

(* --------------------------- input domains ---------------------------- *)

\* data.name of register-client: a given name, or "" (absent / falsy).
GivenNames == {"Alice", ""}

\* data.status of status-update: client-reported, never validated.
Statuses == {"listening", "paused"}

\* The JSON values a negotiation payload (data.sdp / data.candidate) may hold.
PayloadVals == {"sdpA", "sdpB"}

\* The text of a payload on the wire: the JSON value and how it was written
\* (JSON.stringify writes the compact form; a peer may send any spacing).
WirePayloads ==
    {[val |-> "sdpA", fmt |-> "spaced"], [val |-> "sdpB", fmt |-> "compact"]}

\* JSON.parse keeps the value and forgets the spacing.
JSONparse(w) == w.val

\* JSON.stringify writes the compact form.
JSONstringify(v) == [val |-> v, fmt |-> "compact"]

NoPayload == [val |-> "none", fmt |-> "compact"]

\* The :index of POST /api/device/:index.  CONFIG.audioDevice is "" while
\* it is null (AUDIO_DEVICE not set).
Devices == {"1"}

\* A display name: the given one, or the generated `Client ${clientId}`.
GivenName(n) == [given |-> n, dflt |-> Null]
DefaultName(k) == [given |-> "", dflt |-> k]
UnknownName == [given |-> "Unknown", dflt |-> Null]
NoName == [given |-> "", dflt |-> Null]

(* ------------------------------- state -------------------------------- *)

VARIABLES
    \* ---- signaling server ----
    readyState,       \* ws.readyState of each connection
    clientType,       \* the connection handler's closure variable clientType
    clientId,         \* the connection handler's closure variable clientId
    broadcaster,      \* let broadcaster
    dashboard,        \* let dashboard
    clients,          \* const clients = new Map(): id -> {ws, name, status}
    clientIdCounter,  \* let clientIdCounter
    issued,           \* history: the <<id, connection>> of every 'registered' reply
    sent,             \* the messages the last handler sent, in order
    threw,            \* the connections a send of the last handler threw for
    handler,          \* the last handler that ran, with its input
    \* ---- server-mediated audio server ----
    wsState,          \* ws.readyState of each listener socket
    audioClients,     \* const clients = new Set()
    audioProcess,     \* let audioProcess
    isStreaming,      \* let isStreaming
    audioDevice,      \* CONFIG.audioDevice
    procState,        \* each spawned ffmpeg process
    timers,           \* pending setTimeout(startAudioCapture, 1000)
    idleSinceExit,    \* history: ffmpeg exited on its own with no listener, and
                      \* nothing has been launched since
    launched,         \* spawn() calls of the last handler
    launchedWith,     \* the device index of the last handler's spawn()
    signalled,        \* processes the last handler sent SIGTERM
    delivered,        \* what the last handler wrote to each socket
    event             \* the last handler that ran, with its input

sigVars == <<readyState, clientType, clientId, broadcaster, dashboard, clients,
             clientIdCounter, issued, sent, threw, handler>>

capVars == <<wsState, audioClients, audioProcess, isStreaming, audioDevice,
             procState, timers, idleSinceExit, launched, launchedWith, signalled, delivered,
             event>>

vars == <<sigVars, capVars>>

(* ----------------------- signaling server ----------------------------- *)

IsOpen(rs, c) == c # Null /\ rs[c] = "open"

\* A message as the recipient sees it; fields a type does not carry keep
\* their empty value.
Msg(to, type) ==
    [to |-> to, type |-> type, id |-> Null, name |-> NoName,
     payload |-> NoPayload, count |-> Null, full |-> FALSE, list |-> <<>>]

\* The keys of the Map in enumeration order.  Keys are only ever inserted
\* with a fresh, larger clientIdCounter and Map.set on a present key keeps
\* its place, so insertion order is ascending order.
RECURSIVE KeysInOrder(_)
KeysInOrder(S) ==
    IF S = {} THEN <<>>
    ELSE LET k == CHOOSE x \in S : \A y \in S : x <= y
         IN <<k>> \o KeysInOrder(S \ {k})

getClientList(cl) ==
    LET ks == KeysInOrder(DOMAIN cl)
    IN [i \in 1..Len(ks) |->
            [id |-> ks[i], name |-> cl[ks[i]].name, status |-> cl[ks[i]].status]]

\* The sends of the loop `for (const [, client] of clients)` that sends
\* message type `type` with count `n` to every listener record whose socket
\* is open.
RECURSIVE SendToClients(_, _, _, _, _)
SendToClients(ks, cl, rs, type, n) ==
    IF ks = <<>> THEN <<>>
    ELSE LET c == cl[Head(ks)].ws
             rest == SendToClients(Tail(ks), cl, rs, type, n)
         IN IF IsOpen(rs, c)
            THEN <<[Msg(c, type) EXCEPT !.count = n]>> \o rest
            ELSE rest

broadcastClientListFullTo(to, cl) ==
    [Msg(to, "clients") EXCEPT !.count = Cardinality(DOMAIN cl),
                               !.full = TRUE,
                               !.list = getClientList(cl)]

\* The messages broadcastClientList() sends, in order, in a state with
\* broadcaster b, dashboard d, Map cl and ready states rs.
broadcastClientList(b, d, cl, rs) ==
    (IF IsOpen(rs, b) THEN <<broadcastClientListFullTo(b, cl)>> ELSE <<>>)
    \o (IF IsOpen(rs, d) THEN <<broadcastClientListFullTo(d, cl)>> ELSE <<>>)
    \o SendToClients(KeysInOrder(DOMAIN cl), cl, rs, "clients",
                     Cardinality(DOMAIN cl))

Happened(kind, proc) == [kind |-> kind, proc |-> proc]

Ran(kind, c, k, w) == [kind |-> kind, conn |-> c, arg |-> k, payload |-> w]

\* What one handler wrote to one socket: the number of send(chunk) calls and
\* whether one threw, the number of 'listeners' messages and their count.
NoFrames == [chunks |-> 0, threw |-> FALSE, listeners |-> 0, count |-> 0]

\* A handler that writes to no socket.
Silent == [s \in Socks |-> NoFrames]

\* The state when the process has started and nothing has connected.
Init ==
    /\ readyState = [c \in Conns |-> "none"]
    /\ clientType = [c \in Conns |-> "null"]
    /\ clientId = [c \in Conns |-> Null]
    /\ broadcaster = Null
    /\ dashboard = Null
    /\ clients = <<>>
    /\ clientIdCounter = 0
    /\ issued = <<>>
    /\ sent = <<>>
    /\ threw = {}
    /\ handler = Ran("init", Null, Null, NoPayload)
    /\ wsState = [s \in Socks |-> "none"]
    /\ audioClients = {}
    /\ audioProcess = Null
    /\ isStreaming = FALSE
    /\ audioDevice = ""
    /\ procState = [p \in Procs |-> "free"]
    /\ timers = 0
    /\ idleSinceExit = FALSE
    /\ launched = 0
    /\ launchedWith = ""
    /\ signalled = {}
    /\ delivered = Silent
    /\ event = Happened("init", Null)

\* wss.on('connection'): a new socket, with clientType and clientId null.
\* Connections are numbered in the order they arrive.
Connection(c) ==
    /\ readyState[c] = "none"
    /\ \A d \in Conns : d < c => readyState[d] # "none"
    /\ readyState' = [readyState EXCEPT ![c] = "open"]
    /\ sent' = <<>>
    /\ handler' = Ran("connection", c, Null, NoPayload)
    /\ threw' = {}
    /\ UNCHANGED capVars
    /\ UNCHANGED <<clientType, clientId, broadcaster, dashboard, clients,
                   clientIdCounter, issued>>

\* The socket stops being OPEN (the peer went away, a close frame arrived);
\* its 'close' event has not been dispatched yet.
SocketClosing(c) ==
    /\ readyState[c] = "open"
    /\ readyState' = [readyState EXCEPT ![c] = "closing"]
    /\ sent' = <<>>
    /\ handler' = Ran("closing", c, Null, NoPayload)
    /\ threw' = {}
    /\ UNCHANGED capVars
    /\ UNCHANGED <<clientType, clientId, broadcaster, dashboard, clients,
                   clientIdCounter, issued>>

\* case 'register-dashboard'
RegisterDashboard(c) ==
    /\ readyState[c] = "open"
    /\ dashboard' = c
    /\ clientType' = [clientType EXCEPT ![c] = "dashboard"]
    /\ sent' = <<Msg(c, "dashboard-registered")>>
                \o broadcastClientList(broadcaster, c, clients, readyState)
    /\ handler' = Ran("register-dashboard", c, Null, NoPayload)
    /\ threw' = {}
    /\ UNCHANGED capVars
    /\ UNCHANGED <<readyState, clientId, broadcaster, clients, clientIdCounter,
                   issued>>

\* A registration that answers broadcaster-rejected and takes the slot anyway.
RegisterBroadcasterDisplacing(c) ==
    /\ readyState[c] = "open"
    /\ IF IsOpen(readyState, broadcaster)
       THEN /\ sent' = <<Msg(c, "broadcaster-rejected")>>
            /\ broadcaster' = c
            /\ clientType' = [clientType EXCEPT ![c] = "broadcaster"]
       ELSE /\ broadcaster' = c
            /\ clientType' = [clientType EXCEPT ![c] = "broadcaster"]
            /\ sent' = <<Msg(c, "broadcaster-registered")>>
                        \o broadcastClientList(c, dashboard, clients, readyState)
    /\ handler' = Ran("register-broadcaster", c, Null, NoPayload)
    /\ threw' = {}
    /\ UNCHANGED capVars
    /\ UNCHANGED <<readyState, clientId, dashboard, clients, clientIdCounter,
                   issued>>

\* case 'register-broadcaster'
RegisterBroadcaster(c) ==
    /\ readyState[c] = "open"
    /\ IF IsOpen(readyState, broadcaster)
       THEN /\ sent' = <<Msg(c, "broadcaster-rejected")>>
            /\ UNCHANGED <<broadcaster, clientType>>
       ELSE /\ broadcaster' = c
            /\ clientType' = [clientType EXCEPT ![c] = "broadcaster"]
            /\ sent' = <<Msg(c, "broadcaster-registered")>>
                        \o broadcastClientList(c, dashboard, clients, readyState)
    /\ handler' = Ran("register-broadcaster", c, Null, NoPayload)
    /\ threw' = {}
    /\ UNCHANGED capVars
    /\ UNCHANGED <<readyState, clientId, dashboard, clients, clientIdCounter,
                   issued>>

\* An identifier taken from the size of the Map instead of the counter.
NextClientIdFromSize == Cardinality(DOMAIN clients) + 1

\* The next listener identifier: ++clientIdCounter.
NextClientId == clientIdCounter + 1

\* case 'register-client'
RegisterClient(c, n) ==
    /\ readyState[c] = "open"
    /\ clientIdCounter < MaxId
    /\ LET id == NextClientId
           clientName == IF n # "" THEN GivenName(n) ELSE DefaultName(id)
           cl == (id :> [ws |-> c, name |-> clientName, status |-> "connecting"])
                 @@ clients
       IN /\ clientType' = [clientType EXCEPT ![c] = "client"]
          /\ clientIdCounter' = id
          /\ clientId' = [clientId EXCEPT ![c] = id]
          /\ clients' = cl
          /\ sent' = broadcastClientList(broadcaster, dashboard, cl, readyState)
                     \o <<[Msg(c, "registered") EXCEPT !.id = id]>>
          /\ issued' = Append(issued, <<id, c>>)
    /\ handler' = Ran("register-client", c, Null, NoPayload)
    /\ threw' = {}
    /\ UNCHANGED capVars
    /\ UNCHANGED <<readyState, broadcaster, dashboard>>

\* A request-offer that announces the listener and leaves its status alone.
RequestOfferKeepingStatus(c) ==
    /\ readyState[c] = "open"
    /\ IF ~IsOpen(readyState, broadcaster)
       THEN /\ sent' = <<Msg(c, "no-broadcaster")>>
            /\ UNCHANGED clients
       ELSE LET known == clientId[c] # Null /\ clientId[c] \in DOMAIN clients
                cl == clients
                joined == [Msg(broadcaster, "listener-joined") EXCEPT
                              !.id = clientId[c],
                              !.name = IF known THEN cl[clientId[c]].name
                                       ELSE UnknownName]
            IN /\ clients' = cl
               /\ sent' = (IF known
                           THEN broadcastClientList(broadcaster, dashboard, cl,
                                                    readyState)
                           ELSE <<>>)
                          \o <<joined>>
    /\ handler' = Ran("request-offer", c, Null, NoPayload)
    /\ threw' = {}
    /\ UNCHANGED capVars
    /\ UNCHANGED <<readyState, clientType, clientId, broadcaster, dashboard,
                   clientIdCounter, issued>>

\* case 'request-offer'
RequestOffer(c) ==
    /\ readyState[c] = "open"
    /\ IF ~IsOpen(readyState, broadcaster)
       THEN /\ sent' = <<Msg(c, "no-broadcaster")>>
            /\ UNCHANGED clients
       ELSE LET known == clientId[c] # Null /\ clientId[c] \in DOMAIN clients
                cl == IF known
                      THEN [clients EXCEPT ![clientId[c]].status = "listening"]
                      ELSE clients
                joined == [Msg(broadcaster, "listener-joined") EXCEPT
                              !.id = clientId[c],
                              !.name = IF known THEN cl[clientId[c]].name
                                       ELSE UnknownName]
            IN /\ clients' = cl
               /\ sent' = (IF known
                           THEN broadcastClientList(broadcaster, dashboard, cl,
                                                    readyState)
                           ELSE <<>>)
                          \o <<joined>>
    /\ handler' = Ran("request-offer", c, Null, NoPayload)
    /\ threw' = {}
    /\ UNCHANGED capVars
    /\ UNCHANGED <<readyState, clientType, clientId, broadcaster, dashboard,
                   clientIdCounter, issued>>

\* case 'status-update'
StatusUpdate(c, st) ==
    /\ readyState[c] = "open"
    /\ IF clientId[c] # Null /\ clientId[c] \in DOMAIN clients
       THEN LET cl == [clients EXCEPT ![clientId[c]].status = st]
            IN /\ clients' = cl
               /\ sent' = broadcastClientList(broadcaster, dashboard, cl,
                                              readyState)
       ELSE /\ sent' = <<>>
            /\ UNCHANGED clients
    /\ handler' = Ran("status-update", c, Null, NoPayload)
    /\ threw' = {}
    /\ UNCHANGED capVars
    /\ UNCHANGED <<readyState, clientType, clientId, broadcaster, dashboard,
                   clientIdCounter, issued>>

\* The message a broadcaster's offer or ice-candidate for listener k becomes:
\* sent to the socket of record k if the record exists and the socket is open.
ForwardToClient(type, k, w) ==
    IF k \in DOMAIN clients /\ IsOpen(readyState, clients[k].ws)
    THEN <<[Msg(clients[k].ws, type) EXCEPT
               !.payload = JSONstringify(JSONparse(w))]>>
    ELSE <<>>

\* The message a listener's answer or ice-candidate becomes: sent to the
\* broadcaster with the sender's clientId attached.
ForwardToBroadcaster(type, c, w) ==
    <<[Msg(broadcaster, type) EXCEPT
          !.id = clientId[c],
          !.payload = JSONstringify(JSONparse(w))]>>

\* An offer relayed to every listener instead of the one named.
OfferSentToAll(c, k, w) ==
    IF clientType[c] = "broadcaster" /\ k # Null
    THEN [i \in 1..Len(KeysInOrder(DOMAIN clients)) |->
            [Msg(clients[KeysInOrder(DOMAIN clients)[i]].ws, "offer") EXCEPT
                !.payload = JSONstringify(JSONparse(w))]]
    ELSE <<>>

\* What case 'offer' sends.  data.listenerId absent is k = Null.
OfferSent(c, k, w) ==
    IF clientType[c] = "broadcaster" /\ k # Null
    THEN ForwardToClient("offer", k, w)
    ELSE <<>>

\* case 'offer'
Offer(c, k, w) ==
    /\ readyState[c] = "open"
    /\ sent' = OfferSent(c, k, w)
    /\ handler' = Ran("offer", c, k, w)
    /\ threw' = {}
    /\ UNCHANGED capVars
    /\ UNCHANGED <<readyState, clientType, clientId, broadcaster, dashboard,
                   clients, clientIdCounter, issued>>

\* What case 'answer' sends.
AnswerSent(c, w) ==
    IF clientType[c] = "client" /\ IsOpen(readyState, broadcaster)
    THEN ForwardToBroadcaster("answer", c, w)
    ELSE <<>>

\* case 'answer'
Answer(c, w) ==
    /\ readyState[c] = "open"
    /\ sent' = AnswerSent(c, w)
    /\ handler' = Ran("answer", c, Null, w)
    /\ threw' = {}
    /\ UNCHANGED capVars
    /\ UNCHANGED <<readyState, clientType, clientId, broadcaster, dashboard,
                   clients, clientIdCounter, issued>>

\* What case 'ice-candidate' sends.
IceCandidateSent(c, k, w) ==
    IF clientType[c] = "broadcaster" /\ k # Null
    THEN ForwardToClient("ice-candidate", k, w)
    ELSE IF clientType[c] = "client" /\ IsOpen(readyState, broadcaster)
         THEN ForwardToBroadcaster("ice-candidate", c, w)
         ELSE <<>>

\* case 'ice-candidate'
IceCandidate(c, k, w) ==
    /\ readyState[c] = "open"
    /\ sent' = IceCandidateSent(c, k, w)
    /\ handler' = Ran("ice-candidate", c, k, w)
    /\ threw' = {}
    /\ UNCHANGED capVars
    /\ UNCHANGED <<readyState, clientType, clientId, broadcaster, dashboard,
                   clients, clientIdCounter, issued>>

\* The Map without key k (clients.delete(k)).
MapDelete(cl, k) == [x \in DOMAIN cl \ {k} |-> cl[x]]

\* ws.on('close').  The socket is CLOSED when the handler runs; afterwards
\* no event of this connection is dispatched, so its closure variables are
\* dead and are reset.
Close(c) ==
    /\ readyState[c] \in {"open", "closing"}
    /\ LET rs == [readyState EXCEPT ![c] = "closed"]
       IN /\ readyState' = rs
          /\ IF clientType[c] = "dashboard"
             THEN /\ dashboard' = Null
                  /\ sent' = <<>>
                  /\ UNCHANGED <<broadcaster, clients>>
             ELSE IF clientType[c] = "broadcaster"
             THEN /\ broadcaster' = Null
                  /\ sent' = SendToClients(KeysInOrder(DOMAIN clients), clients,
                                           rs, "broadcast-ended", Null)
                  /\ UNCHANGED <<dashboard, clients>>
             ELSE IF clientType[c] = "client" /\ clientId[c] # Null
             THEN LET k == clientId[c]
                      name == IF k \in DOMAIN clients THEN clients[k].name
                              ELSE DefaultName(k)
                      cl == MapDelete(clients, k)
                  IN /\ clients' = cl
                     /\ sent' = (IF IsOpen(rs, broadcaster)
                                 THEN <<[Msg(broadcaster, "listener-left") EXCEPT
                                            !.id = k, !.name = name]>>
                                 ELSE <<>>)
                                \o broadcastClientList(broadcaster, dashboard,
                                                       cl, rs)
                     /\ UNCHANGED <<broadcaster, dashboard>>
             ELSE /\ sent' = <<>>
                  /\ UNCHANGED <<broadcaster, dashboard, clients>>
    /\ clientType' = [clientType EXCEPT ![c] = "null"]
    /\ clientId' = [clientId EXCEPT ![c] = Null]
    /\ handler' = Ran("close", c, Null, NoPayload)
    /\ threw' = {}
    /\ UNCHANGED capVars
    /\ UNCHANGED <<clientIdCounter, issued>>

\* broadcastClientList() when the send calls to the sockets of `bad` throw.
\* The sends to the broadcaster and to the dashboard are not guarded, so a
\* throw there ends the function; a throw in the loop over the listeners is
\* caught and the loop goes on.  Gives the messages that were sent and the
\* sockets a send threw for.
broadcastClientListWith(b, d, cl, rs, bad) ==
    LET toB == IF IsOpen(rs, b) THEN <<broadcastClientListFullTo(b, cl)>>
               ELSE <<>>
        toD == IF IsOpen(rs, d) THEN <<broadcastClientListFullTo(d, cl)>>
               ELSE <<>>
        toAll == SendToClients(KeysInOrder(DOMAIN cl), cl, rs, "clients",
                               Cardinality(DOMAIN cl))
    IN IF IsOpen(rs, b) /\ b \in bad
       THEN [sent |-> <<>>, threw |-> {b}]
       ELSE IF IsOpen(rs, d) /\ d \in bad
       THEN [sent |-> toB, threw |-> {d}]
       ELSE [sent |-> toB \o toD \o SelectSeq(toAll, LAMBDA m : m.to \notin bad),
             threw |-> {toAll[i].to : i \in 1..Len(toAll)} \cap bad]

\* case 'status-update' when the send calls to the sockets of `bad` throw;
\* the handler's try/catch swallows what broadcastClientList lets through.
StatusUpdateThrowing(c, st, bad) ==
    /\ readyState[c] = "open"
    /\ IF clientId[c] # Null /\ clientId[c] \in DOMAIN clients
       THEN LET cl == [clients EXCEPT ![clientId[c]].status = st]
                out == broadcastClientListWith(broadcaster, dashboard, cl,
                                               readyState, bad)
            IN /\ clients' = cl
               /\ sent' = out.sent
               /\ threw' = out.threw
       ELSE /\ sent' = <<>>
            /\ threw' = {}
            /\ UNCHANGED clients
    /\ handler' = Ran("status-update", c, Null, NoPayload)
    /\ UNCHANGED capVars
    /\ UNCHANGED <<readyState, clientType, clientId, broadcaster, dashboard,
                   clientIdCounter, issued>>

SigNext ==
    \/ \E c \in Conns : Connection(c)
    \/ \E c \in Conns : SocketClosing(c)
    \/ \E c \in Conns : RegisterDashboard(c)
    \/ \E c \in Conns : RegisterBroadcaster(c)
    \/ \E c \in Conns, n \in GivenNames : RegisterClient(c, n)
    \/ \E c \in Conns : RequestOffer(c)
    \/ \E c \in Conns, st \in Statuses : StatusUpdate(c, st)
    \/ \E c \in Conns, k \in Ids \cup {Null}, w \in WirePayloads : Offer(c, k, w)
    \/ \E c \in Conns, w \in WirePayloads : Answer(c, w)
    \/ \E c \in Conns, k \in Ids \cup {Null}, w \in WirePayloads :
          IceCandidate(c, k, w)
    \/ \E c \in Conns : Close(c)

SpecSig == Init /\ [][SigNext]_vars

\* The registry handlers, with a status-update whose sends may throw.
ThrowNext ==
    \/ \E c \in Conns : Connection(c)
    \/ \E c \in Conns : SocketClosing(c)
    \/ \E c \in Conns : RegisterDashboard(c)
    \/ \E c \in Conns : RegisterBroadcaster(c)
    \/ \E c \in Conns, n \in GivenNames : RegisterClient(c, n)
    \/ \E c \in Conns, st \in Statuses, bad \in SUBSET Conns :
          StatusUpdateThrowing(c, st, bad)
    \/ \E c \in Conns : Close(c)

SpecThrow == Init /\ [][ThrowNext]_vars

(* --------------------- server-mediated audio server ------------------- *)

\* The supervisor's variables while a handler runs: the handle, the flag,
\* the processes, and what the handler has done so far.
Capture ==
    [audioProcess |-> audioProcess, isStreaming |-> isStreaming,
     procState |-> procState, launched |-> 0, launchedWith |-> "",
     signalled |-> {}]

\* Fewer than MaxProcs processes exist, so one more can be spawned.
CanSpawn == \E p \in Procs : procState[p] = "free"

FreshPid(ps) == CHOOSE p \in Procs : ps[p] = "free" /\ \A q \in Procs : ps[q] = "free" => p <= q

\* startAudioCapture() with CONFIG.audioDevice dev.  `outcome` is what
\* spawn('ffmpeg') turns out to be: "running", or "failing" when the
\* executable cannot be started ('error' is then emitted later).
startAudioCapture(cap, dev, outcome) ==
    IF cap.audioProcess # Null
    THEN cap
    ELSE LET p == FreshPid(cap.procState)
             deviceIndex == IF dev # "" THEN dev ELSE "0"
         IN [cap EXCEPT !.audioProcess = p,
                        !.isStreaming = TRUE,
                        !.procState[p] = outcome,
                        !.launchedWith = deviceIndex,
                        !.launched = @ + 1]

\* A stop that sends SIGTERM and clears the handle but not the flag.
stopAudioCaptureKeepingFlag(cap) ==
    IF cap.audioProcess # Null
    THEN LET p == cap.audioProcess
         IN [cap EXCEPT !.audioProcess = Null,
                        !.procState[p] = IF @ = "running" THEN "killed" ELSE @,
                        !.signalled = @ \cup {p}]
    ELSE cap

\* stopAudioCapture().  kill('SIGTERM') reaches a running process; a process
\* that never started has nothing to signal.
stopAudioCapture(cap) ==
    IF cap.audioProcess # Null
    THEN LET p == cap.audioProcess
         IN [cap EXCEPT !.audioProcess = Null,
                        !.isStreaming = FALSE,
                        !.procState[p] = IF @ = "running" THEN "killed" ELSE @,
                        !.signalled = @ \cup {p}]
    ELSE cap

\* The supervisor's variables after a handler that left them as cap.
Supervise(cap) ==
    /\ audioProcess' = cap.audioProcess
    /\ isStreaming' = cap.isStreaming
    /\ procState' = cap.procState
    /\ launchedWith' = cap.launchedWith
    /\ launched' = cap.launched
    /\ signalled' = cap.signalled

\* Set.add / Set.delete.  The Set is iterated in insertion order; the order
\* only decides in which order sockets are written to, which nothing reads,
\* so the Set is modelled as a set.
SetAdd(q, s) == q \cup {s}
SetDelete(q, s) == q \ {s}

\* The sends of broadcastListenerCount() over the Set q: one message with
\* clients.size to every socket of the Set that is OPEN.
broadcastListenerCount(q, ws) ==
    [s \in Socks |->
        IF s \in q /\ ws[s] = "open"
        THEN [NoFrames EXCEPT !.listeners = 1, !.count = Cardinality(q)]
        ELSE NoFrames]

\* deadClients of broadcastAudio(chunk): the sockets that are not OPEN and
\* those whose send threw (the sockets of `bad`).
deadClients(q, ws, bad) == {s \in q : ws[s] # "open" \/ s \in bad}

\* The Set after broadcastAudio(chunk) has deleted the dead clients.
broadcastAudioReap(q, ws, bad) == q \ deadClients(q, ws, bad)

\* A fan-out that calls send for every socket of the Set, open or not.
broadcastAudioToAll(q, ws, bad) ==
    [s \in Socks |->
        IF s \in q
        THEN [NoFrames EXCEPT !.chunks = 1, !.threw = s \in bad]
        ELSE NoFrames]

\* The send calls of broadcastAudio(chunk) over the Set q: one for every
\* socket of the Set that is OPEN.
broadcastAudio(q, ws, bad) ==
    [s \in Socks |->
        IF s \in q /\ ws[s] = "open"
        THEN [NoFrames EXCEPT !.chunks = 1, !.threw = s \in bad]
        ELSE NoFrames]

\* wss.on('connection') of the audio server.
AudioConnection(s, outcome) ==
    /\ wsState[s] = "none"
    /\ \A t \in Socks : t < s => wsState[t] # "none"
    /\ (audioClients = {} /\ audioProcess = Null) => CanSpawn
    /\ LET ws == [wsState EXCEPT ![s] = "open"]
           q == SetAdd(audioClients, s)
       IN /\ wsState' = ws
          /\ audioClients' = q
          /\ delivered' = broadcastListenerCount(q, ws)
          /\ Supervise(IF Cardinality(q) = 1 /\ audioProcess = Null
                       THEN startAudioCapture(Capture, audioDevice, outcome)
                       ELSE Capture)
    /\ event' = Happened("connection", Null)
    /\ idleSinceExit' = (idleSinceExit /\ launched' = 0)
    /\ UNCHANGED <<audioDevice, timers>>
    /\ UNCHANGED sigVars

\* The socket stops being OPEN; its 'close' event is still to come.
AudioSocketClosing(s) ==
    /\ wsState[s] = "open"
    /\ wsState' = [wsState EXCEPT ![s] = "closing"]
    /\ delivered' = Silent
    /\ Supervise(Capture)
    /\ event' = Happened("closing", Null)
    /\ idleSinceExit' = (idleSinceExit /\ launched' = 0)
    /\ UNCHANGED <<audioClients, audioDevice, timers>>
    /\ UNCHANGED sigVars

\* ws.on('error') of the audio server; the socket is no longer OPEN and its
\* 'close' event follows later.
AudioSocketError(s) ==
    /\ wsState[s] \in {"open", "closing"}
    /\ wsState' = [wsState EXCEPT ![s] = "closing"]
    /\ audioClients' = SetDelete(audioClients, s)
    /\ delivered' = Silent
    /\ Supervise(Capture)
    /\ event' = Happened("error", Null)
    /\ idleSinceExit' = (idleSinceExit /\ launched' = 0)
    /\ UNCHANGED <<audioDevice, timers>>
    /\ UNCHANGED sigVars

\* ws.on('close') of the audio server.
AudioClose(s) ==
    /\ wsState[s] \in {"open", "closing"}
    /\ LET ws == [wsState EXCEPT ![s] = "none"]
           q == SetDelete(audioClients, s)
       IN /\ wsState' = ws
          /\ audioClients' = q
          /\ delivered' = broadcastListenerCount(q, ws)
          /\ Supervise(IF Cardinality(q) = 0 THEN stopAudioCapture(Capture) ELSE Capture)
    /\ event' = Happened("close", Null)
    /\ idleSinceExit' = (idleSinceExit /\ launched' = 0)
    /\ UNCHANGED <<audioDevice, timers>>
    /\ UNCHANGED sigVars

\* audioProcess.stdout.on('data'): a chunk of process p, which is running or
\* was signalled and has not exited yet.
Chunk(p, bad) ==
    /\ procState[p] \in {"running", "killed"}
    /\ bad \subseteq {s \in audioClients : wsState[s] = "open"}
    /\ delivered' = broadcastAudio(audioClients, wsState, bad)
    /\ audioClients' = broadcastAudioReap(audioClients, wsState, bad)
    /\ Supervise(Capture)
    /\ event' = Happened("chunk", p)
    /\ idleSinceExit' = (idleSinceExit /\ launched' = 0)
    /\ UNCHANGED <<wsState, audioDevice, timers>>
    /\ UNCHANGED sigVars

\* audioProcess.on('error'): process p could not be started.
ProcError(p) ==
    /\ procState[p] = "failing"
    /\ Supervise([Capture EXCEPT !.audioProcess = Null,
                                 !.isStreaming = FALSE,
                                 !.procState[p] = "failed"])
    /\ delivered' = Silent
    /\ event' = Happened("proc-error", p)
    /\ idleSinceExit' = (idleSinceExit /\ launched' = 0)
    /\ UNCHANGED <<wsState, audioClients, audioDevice, timers>>
    /\ UNCHANGED sigVars

\* audioProcess.on('close'): process p has exited, on its own, after
\* SIGTERM, or after failing to start.
ProcClose(p) ==
    /\ procState[p] \in {"running", "killed", "failed"}
    /\ Cardinality(audioClients) > 0 => timers < MaxTimers
    /\ Supervise([Capture EXCEPT !.audioProcess = Null,
                                 !.isStreaming = FALSE,
                                 !.procState[p] = "free"])
    /\ timers' = IF Cardinality(audioClients) > 0 THEN timers + 1 ELSE timers
    /\ delivered' = Silent
    /\ event' = Happened("proc-close", p)
    /\ idleSinceExit' = IF procState[p] = "running" /\ audioClients = {}
                        THEN TRUE ELSE idleSinceExit
    /\ UNCHANGED <<wsState, audioClients, audioDevice>>
    /\ UNCHANGED sigVars

\* The callback of setTimeout(startAudioCapture, 1000).
RestartTimer(outcome) ==
    /\ timers > 0
    /\ audioProcess = Null => CanSpawn
    /\ timers' = timers - 1
    /\ Supervise(startAudioCapture(Capture, audioDevice, outcome))
    /\ delivered' = Silent
    /\ event' = Happened("timer", Null)
    /\ idleSinceExit' = (idleSinceExit /\ launched' = 0)
    /\ UNCHANGED <<wsState, audioClients, audioDevice>>
    /\ UNCHANGED sigVars

\* A device switch that calls startAudioCapture without stopping first.
DeviceSwitchWithoutStop(d, outcome) ==
    /\ isStreaming => CanSpawn
    /\ audioDevice' = d
    /\ Supervise(IF isStreaming
                 THEN startAudioCapture(Capture, d, outcome)
                 ELSE Capture)
    /\ delivered' = Silent
    /\ event' = Happened("device", Null)
    /\ idleSinceExit' = (idleSinceExit /\ launched' = 0)
    /\ UNCHANGED <<wsState, audioClients, timers>>
    /\ UNCHANGED sigVars

\* app.post('/api/device/:index')
DeviceSwitch(d, outcome) ==
    /\ isStreaming => CanSpawn
    /\ audioDevice' = d
    /\ Supervise(IF isStreaming
                 THEN startAudioCapture(stopAudioCapture(Capture), d, outcome)
                 ELSE Capture)
    /\ delivered' = Silent
    /\ event' = Happened("device", Null)
    /\ idleSinceExit' = (idleSinceExit /\ launched' = 0)
    /\ UNCHANGED <<wsState, audioClients, timers>>
    /\ UNCHANGED sigVars

SpawnOutcomes == {"running", "failing"}

CapNext ==
    \/ \E s \in Socks, o \in SpawnOutcomes : AudioConnection(s, o)
    \/ \E s \in Socks : AudioSocketClosing(s)
    \/ \E s \in Socks : AudioSocketError(s)
    \/ \E s \in Socks : AudioClose(s)
    \/ \E p \in Procs, bad \in SUBSET Socks : Chunk(p, bad)
    \/ \E p \in Procs : ProcError(p)
    \/ \E p \in Procs : ProcClose(p)
    \/ \E o \in SpawnOutcomes : RestartTimer(o)
    \/ \E d \in Devices, o \in SpawnOutcomes : DeviceSwitch(d, o)

SpecCap == Init /\ [][CapNext]_vars

(* ------------------ properties of the signaling server ---------------- *)

\* The (id, connection) pairs of all 'registered' replies so far.
IssuedPairs == {issued[i] : i \in 1..Len(issued)}

\* The connection identifier k was handed to, Null if k was never handed out.
Owner(k) ==
    IF \E c \in Conns : <<k, c>> \in IssuedPairs
    THEN CHOOSE c \in Conns : <<k, c>> \in IssuedPairs
    ELSE Null

\* How many messages of type `type` the sequence q holds for connection c.
CountTo(q, c, type) ==
    Cardinality({i \in 1..Len(q) : q[i].to = c /\ q[i].type = type})

Replied(q, type) == \E i \in 1..Len(q) : q[i].type = type

\* C1: the broadcaster slot holds no connection or exactly one, and a
\* register-broadcaster step leaves the slot's occupant in place whenever the
\* occupant is live, which is exactly when the registrant is answered
\* broadcaster-rejected; the rejected registrant gets no role either.
C1_RejectedNeverDisplaces ==
    /\ [](broadcaster \in Conns \cup {Null})
    /\ [][handler'.kind = "register-broadcaster" =>
            /\ Replied(sent', "broadcaster-rejected")
                   <=> IsOpen(readyState, broadcaster)
            /\ Replied(sent', "broadcaster-rejected") =>
                   /\ broadcaster' = broadcaster
                   /\ clientType' = clientType
                   /\ ~Replied(sent', "broadcaster-registered")
            /\ ~Replied(sent', "broadcaster-rejected") =>
                   broadcaster' = handler'.conn]_vars

\* C1 witness: a registrant was just rejected while another connection
\* holds the slot.
C1_Witness ==
    /\ handler.kind = "register-broadcaster"
    /\ Replied(sent, "broadcaster-rejected")
    /\ broadcaster # Null
    /\ broadcaster # handler.conn

\* C2: the identifiers of the 'registered' replies start at 1 and strictly
\* increase in the order of registration, so none is handed out twice; every
\* listener record and every connection's clientId carries an identifier that
\* was handed to that very connection.
C2_IdsIncreaseNeverReused ==
    /\ Len(issued) > 0 => issued[1][1] = 1
    /\ \A i, j \in 1..Len(issued) : i < j => issued[i][1] < issued[j][1]
    /\ \A k \in DOMAIN clients : <<k, clients[k].ws>> \in IssuedPairs
    /\ \A c \in Conns : clientId[c] # Null => <<clientId[c], c>> \in IssuedPairs
    /\ handler.kind = "register-client" =>
           /\ sent[Len(sent)].type = "registered"
           /\ sent[Len(sent)].to = handler.conn
           /\ <<sent[Len(sent)].id, handler.conn>> = issued[Len(issued)]

\* C2 witness: churn. The first listener has closed and its record is gone,
\* and a different connection has registered after it.
C2_Witness ==
    /\ Len(issued) = 2
    /\ issued[1][1] \notin DOMAIN clients
    /\ readyState[issued[1][2]] = "closed"
    /\ issued[2][2] # issued[1][2]
    /\ issued[2][1] \in DOMAIN clients

\* C3: no handler sends a message carrying the list of listeners to a
\* connection that had registered as a listener before the handler ran.
C3_ListenersGetCountOnly ==
    [][\A i \in 1..Len(sent') :
           (sent'[i].type = "clients" /\ sent'[i].full) =>
               ~\E k \in Ids : <<k, sent'[i].to>> \in IssuedPairs]_vars

\* C4: when the connection in the broadcaster slot closes, every registered
\* listener with an open socket gets exactly one broadcast-ended, and while no
\* live broadcaster holds the slot a request-offer is answered with
\* no-broadcaster and nothing else is sent.
C4_BroadcastEndedOnce ==
    [][/\ (handler'.kind = "close" /\ broadcaster = handler'.conn) =>
              \A k \in DOMAIN clients :
                  IsOpen(readyState', clients[k].ws) =>
                      CountTo(sent', clients[k].ws, "broadcast-ended") = 1
       /\ (handler'.kind = "request-offer" /\ ~IsOpen(readyState, broadcaster)) =>
              sent' = <<Msg(handler'.conn, "no-broadcaster")>>]_vars

Alive == {p \in Procs : procState[p] = "running"}

\* C6: between handlers, an empty listener set means that no handle is held
\* and no capture process is running.
C6_NoListenersNoProcess ==
    audioClients = {} => (audioProcess = Null /\ Alive = {})

\* C7: a connection that takes the listener count from 0 to 1 makes exactly
\* one spawn() call, a connection arriving at a count of 1 or more makes none.
C7_FirstListenerLaunchesOnce ==
    [][event'.kind = "connection" =>
           launched' = IF audioClients = {} THEN 1 ELSE 0]_vars

\* C8: a 'close' or 'error' handler that empties the listener set sends
\* SIGTERM to every running process and returns with the handle cleared and
\* isStreaming false.
C8_LastListenerStopsCapture ==
    [][(event'.kind \in {"close", "error"}
            /\ audioClients # {} /\ audioClients' = {}) =>
           /\ audioProcess' = Null
           /\ isStreaming' = FALSE
           /\ Alive \subseteq signalled']_vars

\* C9: a chunk is sent exactly once to every socket of the listener set that
\* is open when it arrives and not at all to any other socket; the sockets
\* that were not open or whose send threw leave the set after the pass; and
\* no other handler sends a chunk.
C9_FanOutToOpenOnly ==
    [][/\ event'.kind = "chunk" =>
              /\ \A s \in Socks :
                     /\ delivered'[s].chunks =
                            IF s \in audioClients /\ wsState[s] = "open"
                            THEN 1 ELSE 0
                     /\ delivered'[s].listeners = 0
              /\ audioClients' =
                     {s \in audioClients :
                         wsState[s] = "open" /\ ~delivered'[s].threw}
       /\ event'.kind # "chunk" =>
              \A s \in Socks : delivered'[s].chunks = 0]_vars

\* C9 witness: a chunk went to the one open listener while the other socket,
\* no longer open, got nothing and is not in the set.
C9_Witness ==
    /\ event.kind = "chunk"
    /\ \E s \in Socks :
           /\ delivered[s].chunks = 1
           /\ ~delivered[s].threw
           /\ audioClients = {s}
           /\ \E t \in Socks : wsState[t] = "closing" /\ delivered[t].chunks = 0

\* C10: at most one capture process is running at any time.
C10_AtMostOneProcess == Cardinality(Alive) <= 1

\* C11: a restart timer that fires while the listener set is empty starts no
\* subprocess.
C11_TimerWithoutListenersIdle ==
    [][(event'.kind = "timer" /\ audioClients = {}) => launched' = 0]_vars

(* --------------- further properties of the signaling server ----------- *)

\* The identifiers of the listener records of Map cl that hold socket c.
RecordsOf(cl, c) == {k \in DOMAIN cl : cl[k].ws = c}

\* C12: a message from a connection that already has a role leaves its role
\* and its listener identifier as they are, puts it in no slot it did not
\* hold, and adds no listener record for it.
C12_RoleAssignedOnce ==
    [][handler'.kind # "close" =>
           \A c \in Conns :
               clientType[c] # "null" =>
                   /\ clientType'[c] = clientType[c]
                   /\ clientId'[c] = clientId[c]
                   /\ broadcaster' = c => broadcaster = c
                   /\ dashboard' = c => dashboard = c
                   /\ RecordsOf(clients', c) = RecordsOf(clients, c)]_vars


\* C13: a connection whose close handler has run is not the broadcaster, not
\* the dashboard, and the socket of no listener record.
C13_ClosedLeavesNoReference ==
    \A c \in Conns :
        readyState[c] = "closed" =>
            /\ broadcaster # c
            /\ dashboard # c
            /\ RecordsOf(clients, c) = {}


\* The sequence q of sent messages holds a roster notification for the
\* registry (b, d, cl): the full roster for the broadcaster and the dashboard
\* and the count for every listener record, each if its socket is open.
RosterNotified(q, b, d, cl, rs) ==
    /\ \A x \in {b, d} :
           IsOpen(rs, x) =>
               \E i \in 1..Len(q) :
                   /\ q[i].to = x
                   /\ q[i].type = "clients"
                   /\ q[i].full
                   /\ q[i].list = getClientList(cl)
                   /\ q[i].count = Cardinality(DOMAIN cl)
    /\ \A k \in DOMAIN cl :
           IsOpen(rs, cl[k].ws) =>
               \E i \in 1..Len(q) :
                   /\ q[i].to = cl[k].ws
                   /\ q[i].type = "clients"
                   /\ q[i].count = Cardinality(DOMAIN cl)

\* C14: a request-offer of a connection whose role is listener, while the
\* broadcaster slot holds an open connection, sets the sender's record to
\* listening and changes nothing else in the Map, sends the broadcaster
\* exactly one listener-joined with the identifier handed to the sender and
\* the name of its record, sends a roster notification that shows the new
\* status, and sends no no-broadcaster.
C14_RequestOfferAnnounces ==
    [][LET c == handler'.conn
           k == clientId[c]
       IN (handler'.kind = "request-offer" /\ clientType[c] = "client"
              /\ IsOpen(readyState, broadcaster)) =>
              /\ <<k, c>> \in IssuedPairs
              /\ k \in DOMAIN clients
              /\ clients' = [clients EXCEPT ![k].status = "listening"]
              /\ CountTo(sent', broadcaster, "listener-joined") = 1
              /\ \A i \in 1..Len(sent') :
                     sent'[i].type = "listener-joined" =>
                         /\ sent'[i].to = broadcaster
                         /\ sent'[i].id = k
                         /\ sent'[i].name = clients[k].name
              /\ RosterNotified(sent', broadcaster, dashboard, clients',
                                readyState)
              /\ ~Replied(sent', "no-broadcaster")
              /\ broadcaster' = broadcaster]_vars

\* C14 witness: a listener registered as Alice on one connection has just
\* been announced to the broadcaster on another.
C14_Witness ==
    /\ handler.kind = "request-offer"
    /\ clientType[handler.conn] = "client"
    /\ IsOpen(readyState, broadcaster)
    /\ broadcaster # handler.conn
    /\ CountTo(sent, broadcaster, "listener-joined") = 1
    /\ clientId[handler.conn] \in DOMAIN clients
    /\ clients[clientId[handler.conn]].status = "listening"
    /\ clients[clientId[handler.conn]].name = GivenName("Alice")


\* C15: a request-offer, status-update or answer of a connection whose role
\* is not listener, an offer of a connection whose role is not broadcaster,
\* or a broadcaster's offer or ice-candidate naming an identifier with no
\* listener record, sends nothing to any other connection, leaves the
\* registry and every role as they are, and leaves the sender open.
C15_NotPermittedIsIgnored ==
    [][LET c == handler'.conn
           k == handler'.arg
           kind == handler'.kind
       IN (\/ kind \in {"request-offer", "status-update", "answer"}
                 /\ clientType[c] # "client"
           \/ kind = "offer" /\ clientType[c] # "broadcaster"
           \/ kind \in {"offer", "ice-candidate"}
                 /\ clientType[c] = "broadcaster"
                 /\ k # Null /\ k \notin DOMAIN clients) =>
              /\ \A i \in 1..Len(sent') : sent'[i].to = c
              /\ UNCHANGED <<broadcaster, dashboard, clients, clientIdCounter,
                             clientType, clientId>>
              /\ readyState'[c] = "open"]_vars


\* C16: the close handler of a connection whose role is broadcaster or
\* listener sends a roster notification for the registry it leaves behind;
\* the close handler of a dashboard sends no roster message.
C16_CloseNotifiesRoster ==
    [][LET c == handler'.conn
       IN handler'.kind = "close" =>
              /\ clientType[c] \in {"broadcaster", "client"} =>
                     RosterNotified(sent', broadcaster', dashboard', clients',
                                    readyState')
              /\ clientType[c] = "dashboard" => ~Replied(sent', "clients")]_vars


\* The open connections a roster notification for (b, d, cl) is due to.
Recipients(b, d, cl, rs) ==
    {x \in Conns : IsOpen(rs, x) /\ (x = b \/ x = d \/ RecordsOf(cl, x) # {})}

\* C17: in a roster notification in which a send threw, every open recipient
\* other than those the send threw for is sent the notification.
C17_FailedSendSparesOthers ==
    [][(handler'.kind = "status-update" /\ threw' # {}) =>
           \A x \in Recipients(broadcaster', dashboard', clients', readyState')
                        \ threw' :
               CountTo(sent', x, "clients") >= 1]_vars


\* C18: a close handler leaves alone a slot the closing connection does not
\* occupy; an occupied broadcaster slot changes only in the close handler of
\* its occupant or by a registration accepted because the occupant is no
\* longer open, and an occupied dashboard slot only in the close handler of
\* its occupant or by a register-dashboard.
C18_SlotClearedByOccupantOnly ==
    [][LET c == handler'.conn
           kind == handler'.kind
       IN /\ (broadcaster # Null /\ broadcaster' # broadcaster) =>
                 \/ kind = "close" /\ c = broadcaster
                 \/ kind = "register-broadcaster"
                        /\ ~IsOpen(readyState, broadcaster)
          /\ (dashboard # Null /\ dashboard' # dashboard) =>
                 \/ kind = "close" /\ c = dashboard
                 \/ kind = "register-dashboard"]_vars


\* C19: when a capture process that was not sent SIGTERM exits, a restart is
\* scheduled if and only if the listener set is not empty; and after such an
\* exit with no listener, nothing is launched until a connection arrives.
C19_RestartIffListeners ==
    [][/\ (event'.kind = "proc-close" /\ procState[event'.proc] = "running") =>
              /\ timers' = IF audioClients # {} THEN timers + 1 ELSE timers
              /\ launched' = 0
       /\ (idleSinceExit /\ launched' > 0) => event'.kind = "connection"]_vars


\* C20: the exit of a process that stopAudioCapture had sent SIGTERM
\* schedules no restart and leaves the handle and the streaming flag as they
\* are.
C20_StoppedExitIsNotACrash ==
    [][(event'.kind = "proc-close" /\ procState[event'.proc] = "killed") =>
           /\ timers' = timers
           /\ audioProcess' = audioProcess
           /\ isStreaming' = isStreaming]_vars


\* C21: the 'error' handler of a process that could not be started leaves
\* the handle cleared and the streaming flag false and launches nothing, and
\* neither it nor the 'close' event that follows the failure schedules a
\* restart or launches a process.
C21_LaunchFailureNoRetry ==
    [][/\ event'.kind = "proc-error" =>
              /\ audioProcess' = Null
              /\ isStreaming' = FALSE
              /\ launched' = 0
              /\ timers' = timers
       /\ (event'.kind = "proc-close" /\ procState[event'.proc] = "failed") =>
              /\ launched' = 0
              /\ timers' = timers]_vars


\* C22: a device switch while isStreaming is true sends SIGTERM to the
\* process the handle refers to and makes exactly one spawn() call, with the
\* new device index; the handler ends with isStreaming true and the handle
\* on the new process, and device index and CONFIG.audioDevice agree.
C22_DeviceSwitchRestarts ==
    [][(event'.kind = "device" /\ isStreaming) =>
           /\ audioProcess # Null
           /\ signalled' = {audioProcess}
           /\ launched' = 1
           /\ launchedWith' = audioDevice'
           /\ audioDevice' \in Devices
           /\ isStreaming'
           /\ audioProcess' \in Procs \ {audioProcess}
           /\ procState[audioProcess'] = "free"
           /\ procState'[audioProcess'] \in SpawnOutcomes
           /\ procState'[audioProcess] # "running"]_vars

\* C22 witness: with a listener connected, a device switch has stopped the
\* running process and started another on device 1.
C22_Witness ==
    /\ event.kind = "device"
    /\ audioClients # {}
    /\ launched = 1
    /\ launchedWith = "1"
    /\ isStreaming
    /\ \E p \in signalled : procState[p] = "killed"
    /\ audioProcess \in Procs
    /\ procState[audioProcess] = "running"


\* C23: a chunk emitted by a process that stopAudioCapture has sent SIGTERM
\* is sent to no socket.
C23_StoppedOutputDiscarded ==
    [][(event'.kind = "chunk" /\ procState[event'.proc] = "killed") =>
           \A s \in Socks : delivered'[s].chunks = 0]_vars


\* C24: between handlers, isStreaming is true exactly when audioProcess
\* holds a process.
C24_StreamingIffHandle == isStreaming <=> audioProcess # Null

\* C24 witness: the last listener's close handler has just stopped the
\* process, and both the flag and the handle are cleared.
C24_Witness ==
    /\ event.kind = "close"
    /\ signalled # {}
    /\ audioClients = {}
    /\ ~isStreaming
    /\ audioProcess = Null


\* C25: every handler that changes the size of the listener set sends each
\* open socket of the new set a 'listeners' message with the new size (so
\* that the last count a socket was sent is the size of the set).
C25_CountFollowsSet ==
    [][Cardinality(audioClients') # Cardinality(audioClients) =>
           \A s \in audioClients' :
               wsState'[s] = "open" =>
                   /\ delivered'[s].listeners >= 1
                   /\ delivered'[s].count = Cardinality(audioClients')]_vars

=============================================================================
